---- MODULE Spec2Model ----
(***************************************************************************)
(* TransactionManager (src/src/tandapay/components/index.js, 368-662):     *)
(* the aggregator that merges the incoming and the outgoing asset-transfer *)
(* feed of a wallet into one ordered, grouped, safely truncated list.      *)
(*                                                                         *)
(* One TransactionManager instance is modelled.  loadMore() is an async    *)
(* function: each of its three awaits is a suspension point, so it is      *)
(* split into the steps between them (pc says where the one call that got  *)
(* past the lock is suspended).  getOrderedTransactions() and further      *)
(* loadMore() calls can run at every suspension point.                     *)
(***************************************************************************)
EXTENDS Integers, Sequences, FiniteSets, Bags, TLC

\* ------------------------------------------------------------------------
\* Bounds of the exploration
\* ------------------------------------------------------------------------
\* loadMore() is not started once this many calls have completed their merge
MaxPagesLoaded == 3

\* the two feeds serve at most this many transfers in all
MaxTransfers == 4

\* ------------------------------------------------------------------------
\* Construction parameters and values
\* ------------------------------------------------------------------------
\* the pageSize constructor parameter (the source's default is 10)
pageSizeParam == 1

\* Optional values: <<>> is "absent", <<v>> is "v"
None == <<>>
Some(v) == <<v>>

\* const { pageSize = 10 } = params
DefaultPageSize == 10

\* the page capacity without the doubling
effectivePageSizeUndoubled(given) ==
  IF given = None THEN DefaultPageSize ELSE given[1]

\* this._pageSize = pageSize * 2, for a given or a defaulted pageSize
effectivePageSize(given) ==
  (IF given = None THEN DefaultPageSize ELSE given[1]) * 2

\* _pageSize of the aggregator that is followed
pageSize == effectivePageSize(Some(pageSizeParam))

\* the three states of a cursor: undefined (no fetch yet), null (exhausted),
\* or a page key handed out by the feed
Undefined == "undefined"
Null == "null"
PageKeys == {"k"}

\* transaction hashes the feeds can return
Hashes == {"h1", "h2", "h3"}

\* metadata.blockTimestamp values: ISO strings, or undefined/null
MissingTimestamp == "undefined"
Timestamps == {"2024-01-03", "2024-01-02", MissingTimestamp}

\* new Date(blockTimestamp).getTime() in days, counted so that the epoch
\* is 1; 0 stands for NaN (Invalid Date).  new Date(null) is the epoch,
\* new Date(undefined) is invalid.
DateOf(ts) ==
  CASE ts = "2024-01-04" -> 4
    [] ts = "2024-01-04T00:00:00.000Z" -> 4
    [] ts = "2024-01-03" -> 3
    [] ts = "2024-01-03T00:00:00.000Z" -> 3
    [] ts = "2024-01-02" -> 2
    [] ts = "2024-01-02T00:00:00.000Z" -> 2
    [] ts = "1970-01-01" -> 1
    [] ts = Null -> 1
    [] OTHER -> 0

\* the block time of the transaction with hash h (h2 and h3 are in one block)
BlockTimestampOf(h) ==
  CASE h = "h1" -> "2024-01-03"
    [] h = "h2" -> "2024-01-02"
    [] OTHER -> "2024-01-02"

\* A Transfer: one leg of a transaction.  Every leg of one transaction has
\* the block time of that transaction; the feed may leave the timestamp out
\* (modelled for the legs of h3).
Transfers ==
  {[hash |-> h, blockTimestamp |-> BlockTimestampOf(h)] : h \in Hashes}
    \cup {[hash |-> "h3", blockTimestamp |-> MissingTimestamp]}

\* the place of a transaction in the chain (newest highest): h3 precedes h2
\* in their common block
ChainPosition(h) ==
  CASE h = "h1" -> 3
    [] h = "h2" -> 2
    [] OTHER -> 1

BlockOf(tx) == ChainPosition(tx.hash)

SeqToSet(s) == {s[i] : i \in 1..Len(s)}

Min(a, b) == IF a <= b THEN a ELSE b
Max(a, b) == IF a >= b THEN a ELSE b

VARIABLES
  lock,                        \* _lock
  nextIncomingPage,            \* _nextIncomingPage
  nextOutgoingPage,            \* _nextOutgoingPage
  transactionQueue,            \* _transactionQueue, as the bag of its elements
  pagesLoaded,                 \* _pagesLoaded
  inorderTransactionHashes,    \* _inorderTransactionHashes
  allTransactions,             \* _allTransactions
  allSignedTransactions,       \* keys of _allSignedTransactions
  getOrderedTransactionsCache, \* _getOrderedTransactionsCache (None or Some)
  pc,                          \* where the loadMore() past the lock is suspended
  outcome,                     \* how the last loadMore() call ended
  detailsRequest,              \* hashes of the batch detail fetch in flight
  snapshot,                    \* state at the start of the call in flight
  incomingSeen,                \* chain position of the oldest incoming transfer served
  outgoingSeen,                \* chain position of the oldest outgoing transfer served
  everAvailable,               \* some availability check reported "available"
  pageFetches,                 \* feeds of which the call in flight fetched a page
  exhaustedFeeds,              \* feeds that answered their last fetch with no next page
  held,                        \* arrays returned to callers since the last loadMore() step
  network,                     \* constructor argument network
  walletAddress,               \* constructor argument walletAddress
  constructed,                 \* the constructor returned an aggregator
  responses,                   \* what the two page fetches of the call in flight returned
  pageRequests,                \* parameters of the page fetches that are awaited
  everFetched,                 \* feeds of which a page fetch has succeeded
  callsPastGuard,              \* number of loadMore() calls past the lock guard
  sortKeyCall                  \* a call of the comparator on its own, with its outcome

vars ==
  <<lock, nextIncomingPage, nextOutgoingPage, transactionQueue, pagesLoaded,
    inorderTransactionHashes, allTransactions, allSignedTransactions,
    getOrderedTransactionsCache, pc, outcome, detailsRequest, snapshot,
    incomingSeen, outgoingSeen, everAvailable, pageFetches, exhaustedFeeds,
    held, network, walletAddress, constructed, responses, pageRequests,
    everFetched, callsPastGuard, sortKeyCall>>

\* the fields of the aggregator that a loadMore() call works on
fetchState ==
  <<nextIncomingPage, nextOutgoingPage, transactionQueue, pagesLoaded>>

cacheState ==
  <<inorderTransactionHashes, allTransactions, allSignedTransactions,
    getOrderedTransactionsCache>>

feedState == <<incomingSeen, outgoingSeen, exhaustedFeeds, everFetched>>

\* what the constructor was called with and whether it returned
construction == <<network, walletAddress, constructed>>

\* ------------------------------------------------------------------------
\* The sort comparator (_transactionSortKey)
\* ------------------------------------------------------------------------
\* the two "blockTimestamp is missing" checks and the NaN check
\* the comparator without its first two checks: only an invalid date throws
transactionSortKeyThrowsInvalidDate(tx1, tx2) ==
  \/ DateOf(tx1.blockTimestamp) = 0
  \/ DateOf(tx2.blockTimestamp) = 0

transactionSortKeyThrows(tx1, tx2) ==
  \/ tx1.blockTimestamp \in {MissingTimestamp, Null}
  \/ tx2.blockTimestamp \in {MissingTimestamp, Null}
  \/ DateOf(tx1.blockTimestamp) = 0
  \/ DateOf(tx2.blockTimestamp) = 0

\* the comparator with its two results swapped (ascending order)
transactionSortKeyAscending(tx1, tx2) ==
  IF DateOf(tx1.blockTimestamp) > DateOf(tx2.blockTimestamp) THEN 1
  ELSE IF DateOf(tx1.blockTimestamp) < DateOf(tx2.blockTimestamp) THEN -1
  ELSE 0

\* negative: tx1 is more recent; positive: tx2 is more recent; 0: equal
transactionSortKey(tx1, tx2) ==
  IF DateOf(tx1.blockTimestamp) > DateOf(tx2.blockTimestamp) THEN -1
  ELSE IF DateOf(tx1.blockTimestamp) < DateOf(tx2.blockTimestamp) THEN 1
  ELSE 0

\* ------------------------------------------------------------------------
\* The priority queue (new PriorityQueue(comparator), enqueue, toArray)
\* ------------------------------------------------------------------------
Malformed(q) == {x \in BagToSet(q) : x.blockTimestamp = MissingTimestamp}

\* enqueue pushes the element and then sifts it up: the comparator runs as
\* soon as the queue holds another element, and its error leaves the element
\* in the queue
enqueueThrows(q, tx) ==
  /\ BagCardinality(q) >= 1
  /\ \E x \in BagToSet(q) : transactionSortKeyThrows(tx, x)

enqueue(q, tx) == q (+) SetToBag({tx})

\* an insertion that skips a transfer whose hash is in the queue already
RECURSIVE enqueueAllOncePerHash(_, _)
enqueueAllOncePerHash(q, txs) ==
  IF txs = <<>> THEN [queue |-> q, threw |-> FALSE]
  ELSE IF \E x \in BagToSet(q) : x.hash = Head(txs).hash
       THEN enqueueAllOncePerHash(q, Tail(txs))
       ELSE IF enqueueThrows(q, Head(txs))
            THEN [queue |-> enqueue(q, Head(txs)), threw |-> TRUE]
            ELSE enqueueAllOncePerHash(enqueue(q, Head(txs)), Tail(txs))

\* incoming.forEach(enqueue); outgoing.forEach(enqueue): stops at the first
\* error
RECURSIVE enqueueAll(_, _)
enqueueAll(q, txs) ==
  IF txs = <<>> THEN [queue |-> q, threw |-> FALSE]
  ELSE IF enqueueThrows(q, Head(txs))
       THEN [queue |-> enqueue(q, Head(txs)), threw |-> TRUE]
       ELSE enqueueAll(enqueue(q, Head(txs)), Tail(txs))

\* the arrays that list the elements of q in comparator order; the order of
\* elements the comparator calls equal is not specified by the queue
RECURSIVE toArraySorted(_)
toArraySorted(q) ==
  IF BagCardinality(q) = 0 THEN {<<>>}
  ELSE LET first == {x \in BagToSet(q) :
                       \A y \in BagToSet(q) : transactionSortKey(x, y) <= 0}
       IN UNION {{<<x>> \o rest : rest \in toArraySorted(q (-) SetToBag({x}))}
                   : x \in first}

\* toArray() sorts a copy of the heap with the comparator: with a malformed
\* element among three or more the comparator throws; a heap of two can be
\* listed without a comparison, in either order
toArrayThrows(q) == BagCardinality(q) >= 2 /\ Malformed(q) # {}

toArray(q) ==
  IF Malformed(q) = {} THEN toArraySorted(q)
  ELSE IF BagCardinality(q) = 1 THEN {<<x>> : x \in BagToSet(q)}
  ELSE IF BagCardinality(q) = 2
       THEN {s \in [1..2 -> BagToSet(q)] :
               SetToBag({s[1]}) (+) SetToBag({s[2]}) = q}
       ELSE {}

\* ------------------------------------------------------------------------
\* getOrderedTransactions(): grouping, safe index, result
\* ------------------------------------------------------------------------
EmptyMap == [h \in {} |-> <<>>]

\* the loop without the "seen before" test on the ordered list: a hash is
\* pushed for each of its transfers
RECURSIVE groupByHashPushAlways(_, _, _)
groupByHashPushAlways(arr, all, inorder) ==
  IF arr = <<>> THEN [allTransactions |-> all, inorder |-> inorder]
  ELSE LET tx == Head(arr) IN
       groupByHashPushAlways(
         Tail(arr),
         [h \in DOMAIN all \cup {tx.hash} |->
            IF h = tx.hash
            THEN (IF h \in DOMAIN all THEN Append(all[h], tx) ELSE <<tx>>)
            ELSE all[h]],
         Append(inorder, tx.hash))

\* the loop over transactionsArray: a hash gets its group and its place in
\* the ordered list the first time it is seen
RECURSIVE groupByHash(_, _, _)
groupByHash(arr, all, inorder) ==
  IF arr = <<>> THEN [allTransactions |-> all, inorder |-> inorder]
  ELSE LET tx == Head(arr) IN
       IF tx.hash \notin DOMAIN all
       THEN groupByHash(Tail(arr),
                        [h \in DOMAIN all \cup {tx.hash} |->
                           IF h = tx.hash THEN <<tx>> ELSE all[h]],
                        Append(inorder, tx.hash))
       ELSE groupByHash(Tail(arr),
                        [all EXCEPT ![tx.hash] = Append(@, tx)],
                        inorder)

\* the test with == null, which undefined passes too
isAtLastPageLoose(incoming, outgoing) ==
  incoming \in {Null, Undefined} /\ outgoing \in {Null, Undefined}

isAtLastPageOf(incoming, outgoing) == incoming = Null /\ outgoing = Null

isAtLastPage == isAtLastPageOf(nextIncomingPage, nextOutgoingPage)

\* the safe index without the reserved last hash
maxSafeIndexNoReserve(inorder, atLastPage, pages) ==
  IF atLastPage THEN Len(inorder)
  ELSE Min(pages * (pageSize \div 2), Len(inorder))

\* the safe index that reserves the last hash on the last page too
maxSafeIndexAlwaysReserve(inorder, atLastPage, pages) ==
  IF atLastPage THEN Max(Len(inorder) - 1, 0)
  ELSE Min(pages * (pageSize \div 2), Max(Len(inorder) - 1, 0))

\* the safe index counted in whole per-feed pages of _pageSize transfers
maxSafeIndexFullCapacity(inorder, atLastPage, pages) ==
  IF atLastPage THEN Len(inorder)
  ELSE Min(pages * pageSize, Max(Len(inorder) - 1, 0))

\* the safe index with the test of isAtLastPage() inverted
maxSafeIndexInverted(inorder, atLastPage, pages) ==
  IF ~atLastPage THEN Len(inorder)
  ELSE Min(pages * (pageSize \div 2), Max(Len(inorder) - 1, 0))

maxSafeIndex(inorder, atLastPage, pages) ==
  IF atLastPage THEN Len(inorder)
  ELSE Min(pages * (pageSize \div 2), Max(Len(inorder) - 1, 0))

\* the external formatter: the entry of one hash
toFullTransaction(transfers, signedTransaction) ==
  [hash |-> transfers[1].hash,
   transfers |-> transfers,
   signedTransaction |-> signedTransaction]

\* the loop that builds res for the hashes below maxSafeIndex
RECURSIVE buildResult(_, _, _, _)
buildResult(inorder, all, signed, n) ==
  IF n = 0 THEN <<>>
  ELSE LET hash == inorder[n]
           rest == buildResult(inorder, all, signed, n - 1)
       IN IF hash \notin DOMAIN all \/ all[hash] = <<>> THEN rest
          ELSE Append(rest,
                      toFullTransaction(all[hash],
                        IF hash \in signed THEN Some(hash) ELSE None))

\* what a call computes from the array toArray() returned
orderedFrom(arr) ==
  LET g == groupByHash(arr, allTransactions, inorderTransactionHashes)
  IN [allTransactions |-> g.allTransactions,
      inorder |-> g.inorder,
      res |-> buildResult(g.inorder, g.allTransactions, allSignedTransactions,
                          maxSafeIndex(g.inorder, isAtLastPage, pagesLoaded))]

\* the sequences a call of getOrderedTransactions() can return now
Results ==
  IF getOrderedTransactionsCache # None
  THEN {getOrderedTransactionsCache[1]}
  ELSE {orderedFrom(arr).res : arr \in toArray(transactionQueue)}

\* ------------------------------------------------------------------------
\* The remote feeds (getAssetTransfersForNetwork with order: 'desc')
\* ------------------------------------------------------------------------
Newest == ChainPosition("h1")

\* a page holds at most maxCount = _pageSize transfers, newest transaction
\* first, none newer than the oldest transfer the feed has served before
Pages(seen, room) ==
  {p \in UNION {[1..n -> Transfers] : n \in 0..Min(pageSize, room)} :
     /\ \A i \in 1..Len(p) : BlockOf(p[i]) <= seen
     /\ \A i \in 1..(Len(p) - 1) : BlockOf(p[i]) >= BlockOf(p[i + 1])}

\* the page keys of a feed that answers as loadMore() expects: a token for
\* the next page, or null for "no more pages"
ResponseKeys == PageKeys \cup {Null}

\* the page keys of a feed that may answer with any string or null: the
\* empty string is the one string that is falsy
AnyResponseKeys == ResponseKeys \cup {""}

\* the response of one feed: Promise.resolve({transfers: [], pageKey: null})
\* for a feed of which no page was fetched
Responses(fetched, seen, room, keys) ==
  IF ~fetched THEN {[transfers |-> <<>>, pageKey |-> Null]}
  ELSE [transfers : Pages(seen, room), pageKey : keys]

SeenAfter(seen, page) ==
  IF page = <<>> THEN seen ELSE BlockOf(page[Len(page)])

Feeds == {"incoming", "outgoing"}

\* page fetches issued whatever the cursors are
feedsToFetchAlways(incoming, outgoing) == Feeds

\* the feeds of which loadMore() fetches a page: those whose cursor is not
\* null
feedsToFetch(incoming, outgoing) ==
  {f \in Feeds : (IF f = "incoming" THEN incoming ELSE outgoing) # Null}

\* _getDefaultParams(), as far as the feeds are modelled
getDefaultParams == [order |-> "desc", maxCount |-> pageSize]

\* pageKey: this._nextIncomingPage || undefined
pageKeyParam(cursor) ==
  IF cursor \in {Undefined, Null, ""} THEN Undefined ELSE cursor

\* the parameters of the page fetches of one call
requestsFor(feeds, incoming, outgoing) ==
  [f \in feeds |->
     [order |-> getDefaultParams.order,
      maxCount |-> getDefaultParams.maxCount,
      pageKey |-> pageKeyParam(IF f = "incoming" THEN incoming ELSE outgoing)]]

\* where a feed starts the page it serves: a request without a page key
\* gets the first page
ServedFrom(requests, f, seen) ==
  IF f \in DOMAIN requests /\ requests[f].pageKey = Undefined
  THEN Newest ELSE seen

\* ------------------------------------------------------------------------
\* The constructor
\* ------------------------------------------------------------------------
\* a missing network is ''
Networks == {"sepolia", ""}

\* a checksummed address, a truncated one, text that is no address, and ''
\* for a missing address
WalletAddresses ==
  {"0x52908400098527886E0F7030069857D2E4169EE7", "0x5290", "not-an-address", ""}

\* ethers.utils.isAddress on the addresses above
isAddress(address) == address = "0x52908400098527886E0F7030069857D2E4169EE7"

\* a constructor that checks only that both arguments are given
constructorThrowsUnlessGiven(net, address) == net = "" \/ address = ""

\* the two checks of the constructor
constructorThrows(net, address) ==
  \/ net = "" \/ address = ""
  \/ ~isAddress(address)

\* ------------------------------------------------------------------------
\* Initial state: the constructor was called; it threw, or it returned a
\* fresh TransactionManager
\* ------------------------------------------------------------------------
Init ==
  /\ network \in Networks
  /\ walletAddress \in WalletAddresses
  /\ constructed = ~constructorThrows(network, walletAddress)
  /\ lock = FALSE
  /\ nextIncomingPage = Undefined
  /\ nextOutgoingPage = Undefined
  /\ transactionQueue = EmptyBag
  /\ pagesLoaded = 0
  /\ inorderTransactionHashes = <<>>
  /\ allTransactions = EmptyMap
  /\ allSignedTransactions = {}
  /\ getOrderedTransactionsCache = None
  /\ pc = "idle"
  /\ outcome = "none"
  /\ detailsRequest = None
  /\ snapshot = None
  /\ incomingSeen = Newest
  /\ outgoingSeen = Newest
  /\ everAvailable = FALSE
  /\ pageFetches = {}
  /\ exhaustedFeeds = {}
  /\ held = <<>>
  /\ responses = None
  /\ pageRequests = EmptyMap
  /\ everFetched = {}
  /\ callsPastGuard = 0
  /\ sortKeyCall = None

\* ------------------------------------------------------------------------
\* loadMore()
\* ------------------------------------------------------------------------
\* Arrays returned to callers are followed from one step of loadMore() to
\* the next only: every step of loadMore() empties held.

\* the early return that also releases the lock of the call in flight
loadMoreLockedReleases ==
  /\ lock
  /\ lock' = FALSE
  /\ outcome' = "skipped"
  /\ held' = <<>>
  /\ UNCHANGED <<responses, pageRequests, callsPastGuard>>
  /\ UNCHANGED <<fetchState, cacheState, pc, detailsRequest, snapshot,
                 feedState, everAvailable, pageFetches, construction, sortKeyCall>>

\* if (this._lock) return;
loadMoreLocked ==
  /\ lock
  /\ outcome' = "skipped"
  /\ held' = <<>>
  /\ UNCHANGED <<responses, pageRequests, callsPastGuard>>
  /\ UNCHANGED <<lock, fetchState, cacheState, pc, detailsRequest, snapshot,
                 feedState, everAvailable, pageFetches, construction, sortKeyCall>>

\* a call that sets the lock without having tested it
loadMoreBeginUnguarded ==
  /\ constructed
  /\ pagesLoaded < MaxPagesLoaded
  /\ lock' = TRUE
  /\ pc' = "availability"
  /\ outcome' = "pending"
  /\ snapshot' = Some(fetchState)
  /\ held' = <<>>
  /\ callsPastGuard' = callsPastGuard + 1
  /\ UNCHANGED <<responses, pageRequests>>
  /\ UNCHANGED <<fetchState, cacheState, detailsRequest, feedState,
                 everAvailable, pageFetches, construction, sortKeyCall>>

\* this._lock = true; the availability check is issued and awaited
loadMoreBegin ==
  /\ constructed
  /\ ~lock
  /\ pagesLoaded < MaxPagesLoaded
  /\ lock' = TRUE
  /\ pc' = "availability"
  /\ outcome' = "pending"
  /\ snapshot' = Some(fetchState)
  /\ held' = <<>>
  /\ callsPastGuard' = callsPastGuard + 1
  /\ UNCHANGED <<responses, pageRequests>>
  /\ UNCHANGED <<fetchState, cacheState, detailsRequest, feedState,
                 everAvailable, pageFetches, construction, sortKeyCall>>

\* the early return on "unavailable" without this._lock = false
availabilityResolvesKeepsLock ==
  /\ pc = "availability"
  /\ \E available \in BOOLEAN :
       IF ~available
       THEN /\ pc' = "idle"
            /\ outcome' = "unavailable"
            /\ snapshot' = None
            /\ callsPastGuard' = callsPastGuard - 1
            /\ UNCHANGED <<lock, everAvailable, pageFetches, pageRequests>>
       ELSE /\ pc' = "fetch"
            /\ everAvailable' = TRUE
            /\ pageFetches' = feedsToFetch(nextIncomingPage, nextOutgoingPage)
            /\ pageRequests' =
                 requestsFor(feedsToFetch(nextIncomingPage, nextOutgoingPage),
                             nextIncomingPage, nextOutgoingPage)
            /\ UNCHANGED <<lock, outcome, snapshot, callsPastGuard>>
  /\ held' = <<>>
  /\ UNCHANGED responses
  /\ UNCHANGED <<fetchState, cacheState, detailsRequest, feedState,
                 construction, sortKeyCall>>

\* the availability check resolves; when available, the page fetches are
\* issued and awaited together
availabilityResolves ==
  /\ pc = "availability"
  /\ \E available \in BOOLEAN :
       IF ~available
       THEN /\ lock' = FALSE
            /\ pc' = "idle"
            /\ outcome' = "unavailable"
            /\ snapshot' = None
            /\ callsPastGuard' = callsPastGuard - 1
            /\ UNCHANGED <<everAvailable, pageFetches, pageRequests>>
       ELSE /\ pc' = "fetch"
            /\ everAvailable' = TRUE
            /\ pageFetches' = feedsToFetch(nextIncomingPage, nextOutgoingPage)
            /\ pageRequests' =
                 requestsFor(feedsToFetch(nextIncomingPage, nextOutgoingPage),
                             nextIncomingPage, nextOutgoingPage)
            /\ UNCHANGED <<lock, outcome, snapshot, callsPastGuard>>
  /\ held' = <<>>
  /\ UNCHANGED responses
  /\ UNCHANGED <<fetchState, cacheState, detailsRequest, feedState,
                 construction, sortKeyCall>>

\* the availability check rejects: the await is outside the try block
availabilityRejects ==
  /\ pc = "availability"
  /\ pc' = "idle"
  /\ outcome' = "error"
  /\ snapshot' = None
  /\ held' = <<>>
  /\ callsPastGuard' = callsPastGuard - 1
  /\ UNCHANGED <<responses, pageRequests>>
  /\ UNCHANGED <<lock, fetchState, cacheState, detailsRequest, feedState,
                 everAvailable, pageFetches, construction, sortKeyCall>>

\* the hashes handed to _populateSignedTransactions: those of the fetched
\* transfers that are not null, undefined or ''; the callee filters the same
\* way again, which changes nothing
nonEmptyHashes(txs) ==
  SelectSeq([i \in 1..Len(txs) |-> txs[i].hash],
            LAMBDA h : h \notin {Null, Undefined, ""})

\* hashes.filter(hash => !this._allSignedTransactions.has(hash))
needsDetails(hashes, signed) == SelectSeq(hashes, LAMBDA h : h \notin signed)

\* the feeds that have no further page after the responses of this call
exhaustedAfter(fetched, incomingKey, outgoingKey) ==
  (exhaustedFeeds \ fetched)
    \cup {f \in fetched :
            (IF f = "incoming" THEN incomingKey ELSE outgoingKey) = Null}

\* a batch detail fetch whatever the list of hashes is
detailsRequestAlways(hashes, signed) == Some(needsDetails(hashes, signed))

\* _populateSignedTransactions: no fetch for an empty list of hashes,
\* otherwise one for the hashes without details
detailsRequestFor(hashes, signed) ==
  IF hashes = <<>> THEN None ELSE Some(needsDetails(hashes, signed))

\* Promise.all resolves with page keys from keys: cursors are set, the
\* transfers are enqueued, and the batch detail fetch is issued and awaited
fetchResolvesWith(keys) ==
  /\ pc = "fetch"
  /\ \E incoming \in Responses("incoming" \in pageFetches,
                                 ServedFrom(pageRequests, "incoming", incomingSeen),
                                 MaxTransfers - BagCardinality(transactionQueue),
                                 keys) :
     \E outgoing \in Responses("outgoing" \in pageFetches,
                                 ServedFrom(pageRequests, "outgoing", outgoingSeen),
                                 MaxTransfers - BagCardinality(transactionQueue)
                                   - Len(incoming.transfers),
                                 keys) :
       LET enq == enqueueAll(transactionQueue,
                             incoming.transfers \o outgoing.transfers)
           hashes == nonEmptyHashes(incoming.transfers \o outgoing.transfers)
       IN /\ nextIncomingPage' = incoming.pageKey
          /\ nextOutgoingPage' = outgoing.pageKey
          /\ incomingSeen' =
               SeenAfter(ServedFrom(pageRequests, "incoming", incomingSeen),
                         incoming.transfers)
          /\ outgoingSeen' =
               SeenAfter(ServedFrom(pageRequests, "outgoing", outgoingSeen),
                         outgoing.transfers)
          /\ exhaustedFeeds' =
               exhaustedAfter(pageFetches, incoming.pageKey, outgoing.pageKey)
          /\ everFetched' = everFetched \cup pageFetches
          /\ transactionQueue' = enq.queue
          /\ IF enq.threw
             THEN /\ pc' = "idle"
                  /\ outcome' = "error"
                  /\ snapshot' = None
                  /\ pageFetches' = {}
                  /\ responses' = None
                  /\ callsPastGuard' = callsPastGuard - 1
                  /\ UNCHANGED detailsRequest
             ELSE /\ pc' = "populate"
                  /\ detailsRequest' =
                       detailsRequestFor(hashes, allSignedTransactions)
                  /\ responses' =
                       Some([incoming |-> incoming, outgoing |-> outgoing])
                  /\ UNCHANGED <<outcome, snapshot, pageFetches,
                                 callsPastGuard>>
  /\ pageRequests' = EmptyMap
  /\ held' = <<>>
  /\ UNCHANGED <<lock, pagesLoaded, cacheState, everAvailable, construction,
                 sortKeyCall>>

\* the feeds answer with a token or with null
fetchResolves == fetchResolvesWith(ResponseKeys)

\* a failure of the outgoing fetch that still merges the incoming page
fetchRejectsMergesIncoming ==
  /\ pc = "fetch"
  /\ "outgoing" \in pageFetches
  /\ \E incoming \in Responses("incoming" \in pageFetches, incomingSeen,
                                 MaxTransfers - BagCardinality(transactionQueue),
                                 ResponseKeys) :
       /\ nextIncomingPage' = incoming.pageKey
       /\ incomingSeen' = SeenAfter(incomingSeen, incoming.transfers)
       /\ exhaustedFeeds' =
            exhaustedAfter(pageFetches \ {"outgoing"}, incoming.pageKey, Null)
       /\ transactionQueue' = enqueueAll(transactionQueue, incoming.transfers).queue
  /\ lock' = FALSE
  /\ pc' = "idle"
  /\ outcome' = "fetchError"
  /\ snapshot' = None
  /\ pageFetches' = {}
  /\ held' = <<>>
  /\ callsPastGuard' = callsPastGuard - 1
  /\ pageRequests' = EmptyMap
  /\ UNCHANGED responses
  /\ UNCHANGED <<nextOutgoingPage, pagesLoaded, cacheState, detailsRequest,
                 outgoingSeen, everFetched, everAvailable, construction, sortKeyCall>>

\* Promise.all rejects (one fetch or both): catch releases the lock and
\* rethrows; what the other feed returned is dropped
fetchRejects ==
  /\ pc = "fetch"
  /\ \E rejected \in SUBSET pageFetches : rejected # {}
  /\ lock' = FALSE
  /\ pc' = "idle"
  /\ outcome' = "fetchError"
  /\ snapshot' = None
  /\ pageFetches' = {}
  /\ held' = <<>>
  /\ callsPastGuard' = callsPastGuard - 1
  /\ pageRequests' = EmptyMap
  /\ UNCHANGED responses
  /\ UNCHANGED <<fetchState, cacheState, detailsRequest, feedState,
                 everAvailable, construction, sortKeyCall>>

\* the signed details start afresh with those of this call
populateResolvesDropsSigned ==
  /\ pc = "populate"
  /\ \E details \in {{}, IF detailsRequest = None THEN {}
                            ELSE SeqToSet(detailsRequest[1])} :
       allSignedTransactions' = details
  /\ pagesLoaded' = pagesLoaded + 1
  /\ allTransactions' = EmptyMap
  /\ inorderTransactionHashes' = <<>>
  /\ getOrderedTransactionsCache' = None
  /\ lock' = FALSE
  /\ pc' = "idle"
  /\ outcome' = "resolved"
  /\ detailsRequest' = None
  /\ snapshot' = None
  /\ pageFetches' = {}
  /\ held' = <<>>
  /\ callsPastGuard' = callsPastGuard - 1
  /\ responses' = None
  /\ UNCHANGED pageRequests
  /\ UNCHANGED <<nextIncomingPage, nextOutgoingPage, transactionQueue,
                 feedState, everAvailable, construction, sortKeyCall>>

\* a cache drop that leaves the groups and the ordered hash list in place
populateResolvesKeepsGroups ==
  /\ pc = "populate"
  /\ \E details \in {{}, IF detailsRequest = None THEN {}
                            ELSE SeqToSet(detailsRequest[1])} :
       allSignedTransactions' = allSignedTransactions \cup details
  /\ pagesLoaded' = pagesLoaded + 1
  /\ getOrderedTransactionsCache' = None
  /\ lock' = FALSE
  /\ pc' = "idle"
  /\ outcome' = "resolved"
  /\ detailsRequest' = None
  /\ snapshot' = None
  /\ pageFetches' = {}
  /\ held' = <<>>
  /\ callsPastGuard' = callsPastGuard - 1
  /\ responses' = None
  /\ UNCHANGED pageRequests
  /\ UNCHANGED <<nextIncomingPage, nextOutgoingPage, transactionQueue,
                 allTransactions, inorderTransactionHashes,
                 feedState, everAvailable, construction, sortKeyCall>>

\* the batch detail fetch resolves (with a detail for each requested hash,
\* or for none); the details are stored, the page is counted, the ordering
\* cache is dropped and the lock released
populateResolves ==
  /\ pc = "populate"
  /\ \E details \in {{}, IF detailsRequest = None THEN {}
                            ELSE SeqToSet(detailsRequest[1])} :
       allSignedTransactions' = allSignedTransactions \cup details
  /\ pagesLoaded' = pagesLoaded + 1
  /\ allTransactions' = EmptyMap
  /\ inorderTransactionHashes' = <<>>
  /\ getOrderedTransactionsCache' = None
  /\ lock' = FALSE
  /\ pc' = "idle"
  /\ outcome' = "resolved"
  /\ detailsRequest' = None
  /\ snapshot' = None
  /\ pageFetches' = {}
  /\ held' = <<>>
  /\ callsPastGuard' = callsPastGuard - 1
  /\ responses' = None
  /\ UNCHANGED pageRequests
  /\ UNCHANGED <<nextIncomingPage, nextOutgoingPage, transactionQueue,
                 feedState, everAvailable, construction, sortKeyCall>>

\* the batch detail fetch rejects: nothing in loadMore catches it
populateRejects ==
  /\ pc = "populate"
  /\ detailsRequest # None
  /\ pc' = "idle"
  /\ outcome' = "detailError"
  /\ detailsRequest' = None
  /\ snapshot' = None
  /\ pageFetches' = {}
  /\ held' = <<>>
  /\ callsPastGuard' = callsPastGuard - 1
  /\ responses' = None
  /\ UNCHANGED pageRequests
  /\ UNCHANGED <<lock, fetchState, cacheState, feedState, everAvailable,
                 construction, sortKeyCall>>

\* ------------------------------------------------------------------------
\* getOrderedTransactions()
\* ------------------------------------------------------------------------
\* An array object handed to a caller: its elements, whether it is the very
\* object the aggregator keeps as its cache, and whether the caller has
\* changed it.

\* the array itself, passed on without a copy
sameArray(arr) == [array |-> arr, shared |-> TRUE, mutated |-> FALSE]

\* [...arr]: a new array object with the elements of arr
spread(arr) == [array |-> arr, shared |-> FALSE, mutated |-> FALSE]

\* one call that returns an array of the elements res: with a cache, a copy
\* of it; without one, the array it computes, of which the cache keeps a
\* copy.  A call whose toArray() throws returns nothing and changes nothing.
getOrderedTransactionsCallPops(res) ==
  /\ constructed
  /\ IF getOrderedTransactionsCache # None
     THEN /\ res = getOrderedTransactionsCache[1]
          /\ UNCHANGED <<allTransactions, inorderTransactionHashes,
                         getOrderedTransactionsCache, transactionQueue>>
     ELSE \E arr \in toArray(transactionQueue) :
            LET o == orderedFrom(arr)
            IN /\ res = o.res
               /\ allTransactions' = o.allTransactions
               /\ inorderTransactionHashes' = o.inorder
               /\ getOrderedTransactionsCache' = Some(o.res)
               /\ transactionQueue' = EmptyBag
  /\ UNCHANGED <<responses, pageRequests, callsPastGuard>>
  /\ UNCHANGED <<lock, nextIncomingPage, nextOutgoingPage, pagesLoaded,
                 allSignedTransactions, pc, outcome,
                 detailsRequest, snapshot, feedState, everAvailable,
                 pageFetches, construction, sortKeyCall>>

getOrderedTransactionsCall(res) ==
  /\ constructed
  /\ IF getOrderedTransactionsCache # None
     THEN /\ res = getOrderedTransactionsCache[1]
          /\ UNCHANGED <<allTransactions, inorderTransactionHashes,
                         getOrderedTransactionsCache>>
     ELSE \E arr \in toArray(transactionQueue) :
            LET o == orderedFrom(arr)
            IN /\ res = o.res
               /\ allTransactions' = o.allTransactions
               /\ inorderTransactionHashes' = o.inorder
               /\ getOrderedTransactionsCache' = Some(o.res)
  /\ UNCHANGED <<responses, pageRequests, callsPastGuard>>
  /\ UNCHANGED <<lock, fetchState, allSignedTransactions, pc, outcome,
                 detailsRequest, snapshot, feedState, everAvailable,
                 pageFetches, construction, sortKeyCall>>

\* the call that computes the result; what the caller does with the array
\* is not followed
getOrderedTransactions ==
  /\ getOrderedTransactionsCache = None
  /\ \E res \in Results : getOrderedTransactionsCall(res)
  /\ UNCHANGED held

Next ==
  \/ loadMoreLocked
  \/ loadMoreBegin
  \/ availabilityResolves
  \/ availabilityRejects
  \/ fetchResolves
  \/ fetchRejects
  \/ populateResolves
  \/ populateRejects
  \/ getOrderedTransactions

Spec == Init /\ [][Next]_vars

\* ------------------------------------------------------------------------
\* Callers that keep and change the arrays they were handed
\* ------------------------------------------------------------------------
\* a caller keeps the arrays of at most this many calls
MaxHeld == 2

\* an entry that no call returns
ForeignEntry == [hash |-> "foreign", transfers |-> <<>>, signedTransaction |-> None]

\* arr.push(x), arr.pop(), arr[0] = x on the caller's side
Mutations(arr) ==
  {Append(arr, ForeignEntry)}
    \cup (IF arr = <<>> THEN {}
          ELSE {SubSeq(arr, 1, Len(arr) - 1), [arr EXCEPT ![1] = ForeignEntry]})

\* a call whose caller keeps the returned array: in either branch the
\* returned array and the cache are two objects, one the copy of the other
getOrderedTransactionsReturns ==
  /\ Len(held) < MaxHeld
  /\ \E res \in Results :
       /\ getOrderedTransactionsCall(res)
       /\ held' = Append(held, spread(res))

\* the caller changes an array it was handed; an array that is the cache
\* object changes the cache, and every other array that is that object
callerMutates ==
  /\ \E i \in 1..Len(held) : \E arr \in Mutations(held[i].array) :
       /\ \A j \in 1..Len(held) : ~held[j].mutated
       /\ held' = [j \in 1..Len(held) |->
                     IF j = i \/ (held[i].shared /\ held[j].shared)
                     THEN [held[j] EXCEPT !.array = arr, !.mutated = TRUE]
                     ELSE held[j]]
       /\ getOrderedTransactionsCache' =
            IF held[i].shared THEN Some(arr) ELSE getOrderedTransactionsCache
  /\ UNCHANGED <<responses, pageRequests, callsPastGuard>>
  /\ UNCHANGED <<lock, fetchState, inorderTransactionHashes, allTransactions,
                 allSignedTransactions, pc, outcome, detailsRequest, snapshot,
                 feedState, everAvailable, pageFetches, construction, sortKeyCall>>

\* callers are followed through two loadMore() calls fewer than
\* MaxPagesLoaded
loadMoreBeginCallers == loadMoreBegin /\ pagesLoaded < MaxPagesLoaded - 2

NextCallers ==
  \/ loadMoreLocked
  \/ loadMoreBeginCallers
  \/ availabilityResolves
  \/ availabilityRejects
  \/ fetchResolves
  \/ fetchRejects
  \/ populateResolves
  \/ populateRejects
  \/ getOrderedTransactionsReturns
  \/ callerMutates

SpecCallers == Init /\ [][NextCallers]_vars

\* ------------------------------------------------------------------------
\* Feeds that may answer with any page key
\* ------------------------------------------------------------------------
\* the feeds answer with a token, with null or with ''
fetchResolvesAnyKey == fetchResolvesWith(AnyResponseKeys)

\* with any page key the feeds are followed through one loadMore() call
\* fewer than MaxPagesLoaded
loadMoreBeginTokens == loadMoreBegin /\ pagesLoaded < MaxPagesLoaded - 1

NextTokens ==
  \/ loadMoreLocked
  \/ loadMoreBeginTokens
  \/ availabilityResolves
  \/ availabilityRejects
  \/ fetchResolvesAnyKey
  \/ fetchRejects
  \/ populateResolves
  \/ populateRejects
  \/ getOrderedTransactions

SpecTokens == Init /\ [][NextTokens]_vars

\* ------------------------------------------------------------------------
\* The comparator called on its own, on any two timestamps
\* ------------------------------------------------------------------------
\* blockTimestamp values that are missing or that new Date() cannot parse
MalformedTimestamps == {MissingTimestamp, Null, "", "not-a-date"}

SortKeyTimestamps ==
  MalformedTimestamps
    \cup {"1970-01-01", "2024-01-02", "2024-01-02T00:00:00.000Z",
          "2024-01-03", "2024-01-03T00:00:00.000Z", "2024-01-04",
          "2024-01-04T00:00:00.000Z"}

\* _transactionSortKey(tx1, tx2): throws (result None) or returns the key
transactionSortKeyCall ==
  /\ \E ts1 \in SortKeyTimestamps : \E ts2 \in SortKeyTimestamps :
       LET tx1 == [hash |-> "h1", blockTimestamp |-> ts1]
           tx2 == [hash |-> "h2", blockTimestamp |-> ts2]
       IN sortKeyCall' =
            Some([tx1 |-> tx1, tx2 |-> tx2,
                  result |-> IF transactionSortKeyThrows(tx1, tx2)
                             THEN None
                             ELSE Some(transactionSortKey(tx1, tx2))])
  /\ UNCHANGED <<lock, fetchState, cacheState, allSignedTransactions, pc,
                 outcome, detailsRequest, snapshot, feedState, everAvailable,
                 pageFetches, held, construction, responses, pageRequests,
                 callsPastGuard>>

NextSortKey == transactionSortKeyCall

SpecSortKey == Init /\ [][NextSortKey]_vars

\* ------------------------------------------------------------------------
\* Observations used by the properties
\* ------------------------------------------------------------------------
\* number of transfers with hash h in queue q
QueueCount(q, h) ==
  LET same == {x \in BagToSet(q) : x.hash = h}
  IN BagCardinality([x \in same |-> CopiesIn(x, q)])

QueueHashes(q) == {x.hash : x \in BagToSet(q)}

\* what a call of getOrderedTransactions() returns now, with the ordered
\* hash list it leaves behind
Outcomes ==
  IF getOrderedTransactionsCache # None
  THEN {[inorder |-> inorderTransactionHashes,
         res |-> getOrderedTransactionsCache[1]]}
  ELSE {[inorder |-> orderedFrom(arr).inorder, res |-> orderedFrom(arr).res]
          : arr \in toArray(transactionQueue)}

ResultHashes(res) == {res[i].hash : i \in 1..Len(res)}

NoDuplicates(seq) ==
  \A i \in 1..Len(seq) : \A j \in 1..Len(seq) : seq[i] = seq[j] => i = j

\* entries i < j of res are in descending order wherever their transfers
\* carry a timestamp
SortedDescending(res) ==
  \A i \in 1..Len(res) : \A j \in (i + 1)..Len(res) :
    \A t1 \in SeqToSet(res[i].transfers) : \A t2 \in SeqToSet(res[j].transfers) :
      ~transactionSortKeyThrows(t1, t2) =>
        DateOf(t1.blockTimestamp) >= DateOf(t2.blockTimestamp)

\* what getOrderedTransactions() would compute now without any cache: from
\* the queue, the cursors, pagesLoaded and the signed details
FreshResults ==
  {LET g == groupByHash(arr, EmptyMap, <<>>)
   IN buildResult(g.inorder, g.allTransactions, allSignedTransactions,
                  maxSafeIndex(g.inorder, isAtLastPage, pagesLoaded))
     : arr \in toArray(transactionQueue)}

\* the hash sequences getOrderedTransactions() would return, computed
\* without any cache from the given cursors, queue and page count
FreshHashSequences(incoming, outgoing, q, pages) ==
  {LET g == groupByHash(arr, EmptyMap, <<>>)
       res == buildResult(g.inorder, g.allTransactions, {},
                          maxSafeIndex(g.inorder,
                                       isAtLastPageOf(incoming, outgoing),
                                       pages))
   IN [i \in 1..Len(res) |-> res[i].hash]
     : arr \in toArray(q)}

\* the sequences a call of getOrderedTransactions() can return in a state
\* with the given fields
ResultsOf(cache, q, all, inorder, signed, atLastPage, pages) ==
  IF cache # None
  THEN {cache[1]}
  ELSE {LET g == groupByHash(arr, all, inorder)
        IN buildResult(g.inorder, g.allTransactions, signed,
                       maxSafeIndex(g.inorder, atLastPage, pages))
          : arr \in toArray(q)}

\* the number of entries of the result in a state with the given fields:
\* the length of the cached result, or the safe index for the hashes
\* grouped so far and the further hashes of the queue
ExposedCount(cache, q, inorder, atLastPage, pages) ==
  IF cache # None
  THEN Len(cache[1])
  ELSE LET n == Cardinality(SeqToSet(inorder) \cup QueueHashes(q))
       IN maxSafeIndex([i \in 1..n |-> i], atLastPage, pages)

IsPrefix(s, t) == Len(s) <= Len(t) /\ SubSeq(t, 1, Len(s)) = s

\* the elements of a sequence as a bag
RECURSIVE BagOfSeq(_)
BagOfSeq(seq) ==
  IF seq = <<>> THEN EmptyBag
  ELSE SetToBag({Head(seq)}) (+) BagOfSeq(Tail(seq))

\* a loadMore() call that was past the lock ends in this step
CallEnds == pc # "idle" /\ pc' = "idle"

\* ------------------------------------------------------------------------
\* Properties
\* ------------------------------------------------------------------------

\* C1: partially fetched transactions are never exposed: the group of every
\* hash in the result of getOrderedTransactions() already holds every
\* transfer with that hash, so no step brings another transfer with an
\* exposed hash into the queue.  Stated for queues of well-formed transfers
\* and for the most favourable order of equal timestamps, so that a
\* violation does not rest on either.
C1_ExposedGroupsAreComplete ==
  [][Malformed(transactionQueue') = {} =>
       \E o \in Outcomes : \A i \in 1..Len(o.res) :
         Len(o.res[i].transfers) = QueueCount(transactionQueue', o.res[i].hash)]_vars

\* C2: no hash appears twice in the result of getOrderedTransactions() or
\* in the ordered hash list, however many transfers share it.
C2_EachHashOnce ==
  \A o \in Outcomes :
    /\ NoDuplicates(o.inorder)
    /\ NoDuplicates([i \in 1..Len(o.res) |-> o.res[i].hash])

\* a result that holds two entries, one of them a group of two transfers
\* fetched by two loadMore() calls
C2_Witness ==
  /\ pagesLoaded >= 2
  /\ getOrderedTransactionsCache # None
  /\ Len(getOrderedTransactionsCache[1]) >= 2
  /\ \E i \in 1..Len(getOrderedTransactionsCache[1]) :
       Len(getOrderedTransactionsCache[1][i].transfers) >= 2

\* C3: the result of getOrderedTransactions() is sorted descending by
\* timestamp.
C3_SortedDescending == \A o \in Outcomes : SortedDescending(o.res)

\* a result with two entries of different timestamps
C3_Witness ==
  /\ getOrderedTransactionsCache # None
  /\ \E i, j \in 1..Len(getOrderedTransactionsCache[1]) :
       /\ i < j
       /\ DateOf(getOrderedTransactionsCache[1][i].transfers[1].blockTimestamp)
            > DateOf(getOrderedTransactionsCache[1][j].transfers[1].blockTimestamp)
       /\ DateOf(getOrderedTransactionsCache[1][j].transfers[1].blockTimestamp) > 0

\* C4: while isAtLastPage() is false the result never contains the last
\* hash of the ordered hash list.
C4_LastHashReserved ==
  ~isAtLastPage =>
    \A o \in Outcomes :
      o.inorder # <<>> => o.inorder[Len(o.inorder)] \notin ResultHashes(o.res)

\* the outgoing feed is not exhausted, a result was computed, it exposes an
\* entry and holds back the last hash
C4_Witness ==
  /\ nextOutgoingPage \in PageKeys
  /\ getOrderedTransactionsCache # None
  /\ Len(getOrderedTransactionsCache[1]) >= 1
  /\ Len(inorderTransactionHashes) > Len(getOrderedTransactionsCache[1])

\* C5: a loadMore() call made while the lock is held is a no-op: no
\* availability check, no fetch, no change of cursors, queue, pagesLoaded
\* or caches, and the call in flight stays where it is.
C5_LockedCallIsNoOp ==
  [][(outcome' = "skipped" /\ outcome # "skipped") =>
       /\ lock
       /\ UNCHANGED <<lock, fetchState, cacheState, pc, detailsRequest>>]_vars

\* a call was skipped while another one awaits its page fetches
C5_Witness == outcome = "skipped" /\ pc = "fetch" /\ lock

\* C6: whenever no loadMore() call is in flight the lock is free, whichever
\* way the last call ended.
C6_LockReleasedOnEveryExit == pc = "idle" => ~lock

\* C7: a rejected page fetch ends loadMore() with a fetch error and no
\* partial merge: cursors, queue and pagesLoaded are those of the start of
\* the call, and the lock is released.
C7_FetchFailureMergesNothing ==
  [][(CallEnds /\ outcome' = "fetchError") =>
       /\ fetchState' = snapshot[1]
       /\ UNCHANGED fetchState
       /\ ~lock']_vars

\* a call that fetched a page of each feed failed, after an earlier call
\* had filled the queue
C7_Witness ==
  /\ outcome = "fetchError"
  /\ ~lock
  /\ BagCardinality(transactionQueue) >= 1
  /\ nextIncomingPage \in PageKeys
  /\ nextOutgoingPage \in PageKeys

\* C8: a failed page fetch or batch detail fetch leaves cursors, queue and
\* pagesLoaded as they were at the start of the call and the lock free, so
\* that the next loadMore() fetches again from the same cursors.
C8_RemoteFailureLeavesStateUnchanged ==
  [][(CallEnds /\ outcome' \in {"fetchError", "detailError"}) =>
       /\ fetchState' = snapshot[1]
       /\ ~lock']_vars

\* C9: while every availability check has reported "unavailable" the
\* aggregator stays empty: cursors uninitialized, queue empty, pagesLoaded
\* 0, empty result, isAtLastPage() false; and the call that gets this
\* answer changes nothing and releases the lock.
C9_UnavailableChangesNothing ==
  /\ [](~everAvailable =>
          /\ nextIncomingPage = Undefined /\ nextOutgoingPage = Undefined
          /\ BagCardinality(transactionQueue) = 0
          /\ pagesLoaded = 0
          /\ \A o \in Outcomes : o.res = <<>>
          /\ ~isAtLastPage)
  /\ [][(CallEnds /\ outcome' = "unavailable") =>
          /\ UNCHANGED <<fetchState, cacheState>>
          /\ ~lock']_vars

\* the source was found unavailable and an (empty) result was computed
C9_Witness ==
  /\ outcome = "unavailable"
  /\ ~everAvailable
  /\ ~lock
  /\ getOrderedTransactionsCache = Some(<<>>)

\* C10: after a successful loadMore() that left both cursors exhausted,
\* the result holds one entry for each distinct hash fetched so far, in
\* descending order.
C10_LastPageExposesEverything ==
  (pc = "idle" /\ outcome = "resolved" /\ isAtLastPage) =>
    \A o \in Outcomes :
      /\ ResultHashes(o.res) = QueueHashes(transactionQueue)
      /\ Len(o.res) = Cardinality(QueueHashes(transactionQueue))
      /\ Len(o.inorder) = Len(o.res)
      /\ SortedDescending(o.res)

\* both feeds were exhausted by the first call and the result lists all
\* three hashes, one of them with a group of two transfers
C10_Witness ==
  /\ pc = "idle" /\ outcome = "resolved" /\ isAtLastPage
  /\ pagesLoaded = 1
  /\ getOrderedTransactionsCache # None
  /\ Len(getOrderedTransactionsCache[1]) = Cardinality(Hashes)
  /\ BagCardinality(transactionQueue) > Cardinality(Hashes)

\* C11 as stated: while isAtLastPage() is false a result holds
\* min(pagesLoaded * _pageSize, max(len(hashOrder) - 1, 0)) entries, where
\* _pageSize is the per-feed fetch capacity (twice the requested page
\* size).
C11_SafeIndexFullCapacity ==
  ~isAtLastPage =>
    \A o \in Outcomes :
      Len(o.res) = Min(pagesLoaded * pageSize, Max(Len(o.inorder) - 1, 0))

\* C11: while isAtLastPage() is false a result holds
\* min(pagesLoaded * floor(_pageSize / 2), max(len(hashOrder) - 1, 0))
\* entries: the page term counts the requested page size, which is half
\* the per-feed fetch capacity.
C11_SafeIndexHalfCapacity ==
  ~isAtLastPage =>
    \A o \in Outcomes :
      Len(o.res) =
        Min(pagesLoaded * (pageSize \div 2), Max(Len(o.inorder) - 1, 0))

\* a result computed before the last page in which the page term binds:
\* more hashes than pagesLoaded * floor(_pageSize / 2) are held back
C11_Witness ==
  /\ ~isAtLastPage
  /\ pagesLoaded >= 1
  /\ getOrderedTransactionsCache # None
  /\ Len(getOrderedTransactionsCache[1]) = pagesLoaded * (pageSize \div 2)
  /\ Len(inorderTransactionHashes) - 1 > Len(getOrderedTransactionsCache[1])

\* C12: the arrays returned by getOrderedTransactions() calls with no step
\* of loadMore() between them have equal elements, those of the cache, and
\* each is an object of its own: when a caller adds, removes or replaces
\* elements of one of them, the cache and the other returned arrays stay
\* as they are.
C12_EqualIndependentSnapshots ==
  /\ [](\A i \in 1..Len(held) :
          ~held[i].mutated => getOrderedTransactionsCache = Some(held[i].array))
  /\ [][\A i \in 1..Len(held) :
          (Len(held') = Len(held) /\ held'[i] # held[i]) =>
            /\ UNCHANGED getOrderedTransactionsCache
            /\ \A j \in 1..Len(held) : j # i => held'[j] = held[j]]_vars

\* two calls returned a result of two entries or more and the caller has
\* changed the array of the first call
C12_Witness ==
  /\ Len(held) = 2
  /\ held[1].mutated
  /\ ~held[2].mutated
  /\ Len(held[2].array) >= 2
  /\ getOrderedTransactionsCache = Some(held[2].array)

\* C13: isAtLastPage() is true exactly when both feeds are exhausted, that
\* is when each has answered its last fetch with no next page; it is false
\* while a cursor is undefined or holds a page key, and false on a fresh
\* aggregator.
C13_LastPageIffBothExhausted ==
  /\ isAtLastPage <=> exhaustedFeeds = Feeds
  /\ nextIncomingPage \in {Undefined} \cup PageKeys => ~isAtLastPage
  /\ nextOutgoingPage \in {Undefined} \cup PageKeys => ~isAtLastPage
  /\ (outcome = "none" /\ pc = "idle") => ~isAtLastPage

\* the feeds were exhausted by different loadMore() calls: the queue holds
\* more transfers than one page
C13_Witness ==
  /\ isAtLastPage
  /\ pc = "idle" /\ outcome = "resolved"
  /\ pagesLoaded >= 2
  /\ BagCardinality(transactionQueue) > pageSize

\* C14: the signed details only grow: every hash that has details in one
\* state has them in every later state, whatever loadMore() and
\* getOrderedTransactions() do to the queue and the ordering cache.
C14_SignedDetailsOnlyGrow ==
  [][allSignedTransactions \subseteq allSignedTransactions']_vars

\* after a call that dropped the ordering cache, a later call fetched only
\* transfers whose details are still held, so it asks for none
C14_Witness ==
  /\ pagesLoaded >= 1
  /\ pc = "populate"
  /\ detailsRequest = Some(<<>>)
  /\ allSignedTransactions # {}

\* C15: getOrderedTransactions() never fails: in every reachable state of
\* an aggregator a call has an array to return, the cache or one computed
\* from the queue.
C15_CallAlwaysReturns == constructed => Results # {}

\* C16: construction fails fast: with a wallet address that is not
\* well-formed, or with a missing network or address, the constructor
\* throws and there is no aggregator to call; every aggregator that exists
\* was constructed with a network and a well-formed address, and until its
\* first loadMore() it has an empty queue, no groups, no signed details,
\* no hash order, pagesLoaded 0, undefined cursors and a free lock.
C16_ConstructionFailsFast ==
  /\ ~isAddress(walletAddress) => ~constructed
  /\ constructed => network # "" /\ walletAddress # "" /\ isAddress(walletAddress)
  /\ ~constructed =>
       /\ pc = "idle" /\ outcome = "none"
       /\ getOrderedTransactionsCache = None
  /\ (constructed /\ outcome = "none") =>
       /\ BagCardinality(transactionQueue) = 0
       /\ allTransactions = EmptyMap
       /\ allSignedTransactions = {}
       /\ inorderTransactionHashes = <<>>
       /\ getOrderedTransactionsCache \in {None, Some(<<>>)}
       /\ pagesLoaded = 0
       /\ nextIncomingPage = Undefined /\ nextOutgoingPage = Undefined
       /\ ~lock

\* the constructor was given a network and an address that is not
\* well-formed, and threw
C16_Witness ==
  /\ network # ""
  /\ walletAddress # ""
  /\ ~isAddress(walletAddress)
  /\ ~constructed

\* C17: an exhausted cursor is absorbing: while a cursor is null no
\* loadMore() fetches a page of its feed, no step takes the cursor away
\* from null or serves a transfer of that feed, and once isAtLastPage() is
\* true it stays true.
C17_ExhaustedCursorAbsorbing ==
  /\ []((pc = "fetch" /\ nextIncomingPage = Null) => "incoming" \notin pageFetches)
  /\ []((pc = "fetch" /\ nextOutgoingPage = Null) => "outgoing" \notin pageFetches)
  /\ [][/\ (nextIncomingPage = Null) =>
            (nextIncomingPage' = Null /\ incomingSeen' = incomingSeen)
        /\ (nextOutgoingPage = Null) =>
            (nextOutgoingPage' = Null /\ outgoingSeen' = outgoingSeen)
        /\ isAtLastPage => isAtLastPage']_vars

\* a call, made after the incoming feed was exhausted, that fetches a page
\* of the outgoing feed only
C17_Witness ==
  /\ pc = "fetch"
  /\ nextIncomingPage = Null
  /\ nextOutgoingPage \in PageKeys
  /\ pageFetches = {"outgoing"}

\* C18: the ordering cache is coherent in every reachable state, also while
\* a loadMore() is in flight and after one that failed: a populated cache
\* holds what a computation from the current queue, cursors, pagesLoaded
\* and signed details would return.  Stated for queues of well-formed
\* transfers and for any order of equal timestamps.
C18_CacheCoherent ==
  (getOrderedTransactionsCache # None /\ Malformed(transactionQueue) = {}) =>
    getOrderedTransactionsCache[1] \in FreshResults

\* C19: the batch detail fetch is asked for distinct, non-empty hashes that
\* have no signed details yet: no hash twice, no empty hash, no hash whose
\* details are held.
C19_DetailRequestDistinctUncached ==
  detailsRequest # None =>
    /\ NoDuplicates(detailsRequest[1])
    /\ \A i \in 1..Len(detailsRequest[1]) :
         /\ detailsRequest[1][i] \notin {Null, Undefined, ""}
         /\ detailsRequest[1][i] \notin allSignedTransactions

\* C20: pagesLoaded counts the completed loadMore() calls that fetched a
\* page: it grows by one in the step that completes such a call and in no
\* other step, so not when a call is skipped by the lock, returns on
\* unavailability, fails, or finds both cursors exhausted.
C20_PagesLoadedCountsFetchingCalls ==
  [][pagesLoaded' =
       pagesLoaded +
         (IF CallEnds /\ outcome' = "resolved" /\ pageFetches # {}
          THEN 1 ELSE 0)]_vars

\* C21: a loadMore() call past the lock and the availability check has one
\* page request per feed with a cursor that is not null, all of them
\* outstanding together and none issued later in the call; cursors and
\* queue change only in the step in which the fetches settle successfully;
\* from then until the call succeeds both cursors are the page keys of the
\* two responses and the queue is the queue of the start of the call plus
\* every transfer of both responses.
C21_FetchBothThenMerge ==
  /\ [](/\ DOMAIN pageRequests \subseteq Feeds
        /\ pc = "fetch" => DOMAIN pageRequests = pageFetches
        /\ pc # "fetch" => pageRequests = EmptyMap)
  /\ [](pc = "populate" =>
          /\ responses # None
          /\ nextIncomingPage = responses[1].incoming.pageKey
          /\ nextOutgoingPage = responses[1].outgoing.pageKey
          /\ transactionQueue =
               snapshot[1][3] (+) BagOfSeq(responses[1].incoming.transfers)
                              (+) BagOfSeq(responses[1].outgoing.transfers))
  /\ [][<<nextIncomingPage, nextOutgoingPage, transactionQueue>>'
          # <<nextIncomingPage, nextOutgoingPage, transactionQueue>> =>
            /\ pc = "fetch"
            /\ outcome' # "fetchError"
            /\ pageRequests' = EmptyMap]_vars

\* the second call fetched a page of each feed, both with transfers, and
\* awaits the details
C21_Witness ==
  /\ pc = "populate"
  /\ pagesLoaded >= 1
  /\ pageFetches = Feeds
  /\ responses # None
  /\ responses[1].incoming.transfers # <<>>
  /\ responses[1].outgoing.transfers # <<>>

\* C22: no step takes a transfer out of the queue, and a call of
\* getOrderedTransactions() that drains the queue leaves the queue, both
\* cursors, pagesLoaded, the signed details and the lock as they were and
\* leaves every queued transfer in the group of its hash.
C22_DrainIsNonDestructive ==
  /\ [][transactionQueue \sqsubseteq transactionQueue']_vars
  /\ [][(getOrderedTransactionsCache = None
          /\ getOrderedTransactionsCache' # None) =>
            (/\ UNCHANGED <<fetchState, allSignedTransactions, lock>>
             /\ \A x \in BagToSet(transactionQueue') :
                  /\ x.hash \in DOMAIN allTransactions'
                  /\ x \in SeqToSet(allTransactions'[x.hash]))]_vars

\* a drain after the second load: three transfers or more are queued and
\* grouped
C22_Witness ==
  /\ pagesLoaded >= 2
  /\ pc = "idle"
  /\ getOrderedTransactionsCache # None
  /\ BagCardinality(transactionQueue) >= 3
  /\ \A x \in BagToSet(transactionQueue) :
       x.hash \in DOMAIN allTransactions

\* C23: a call of the comparator throws when the blockTimestamp of either
\* operand is undefined, null or unparseable; otherwise it returns a
\* negative number, a positive number or zero exactly when the first
\* timestamp is later than, earlier than or equal to the second.
C23_SortKeyFailsFastOrOrders ==
  sortKeyCall # None =>
    LET c == sortKeyCall[1]
        ts1 == c.tx1.blockTimestamp
        ts2 == c.tx2.blockTimestamp
    IN IF ts1 \in MalformedTimestamps \/ ts2 \in MalformedTimestamps
       THEN c.result = None
       ELSE /\ c.result # None
            /\ c.result[1] < 0 <=> DateOf(ts1) > DateOf(ts2)
            /\ c.result[1] > 0 <=> DateOf(ts1) < DateOf(ts2)
            /\ c.result[1] = 0 <=> DateOf(ts1) = DateOf(ts2)

\* the comparator threw on a null timestamp compared with a valid one
C23_Witness ==
  /\ sortKeyCall # None
  /\ sortKeyCall[1].tx1.blockTimestamp = "2024-01-03"
  /\ sortKeyCall[1].tx2.blockTimestamp = Null
  /\ sortKeyCall[1].result = None

\* C24: every page request that is awaited asks for maxCount equal to twice
\* the page size given to the constructor, whatever the feed and however
\* many calls came before, and a constructor called without a page size
\* asks for twice the default of 10.
C24_MaxCountIsTwicePageSize ==
  /\ \A f \in DOMAIN pageRequests :
       pageRequests[f].maxCount = 2 * pageSizeParam
  /\ effectivePageSize(None) = 20
  /\ getDefaultParams.maxCount = 2 * pageSizeParam

\* a later call awaits the pages of both feeds
C24_Witness ==
  /\ pc = "fetch"
  /\ pagesLoaded >= 1
  /\ DOMAIN pageRequests = Feeds

\* C25: the exposed prefix is stable: when a loadMore() call succeeds, the
\* hash sequence getOrderedTransactions() returned at the start of the call
\* is a prefix of the one it returns after it.  Stated for queues of
\* well-formed transfers and for the most favourable order of equal
\* timestamps before and after, so that a violation does not rest on either.
C25_ExposedPrefixStable ==
  [][(CallEnds /\ outcome' = "resolved" /\ Malformed(transactionQueue') = {}) =>
       \E before \in FreshHashSequences(snapshot[1][1], snapshot[1][2],
                                        snapshot[1][3], snapshot[1][4]) :
         \E after \in FreshHashSequences(nextIncomingPage', nextOutgoingPage',
                                         transactionQueue', pagesLoaded') :
           IsPrefix(before, after)]_vars

\* C26: in every state in which isAtLastPage() is true, also while the
\* loadMore() that exhausted the cursors is in flight or after it failed,
\* getOrderedTransactions() returns an entry for every distinct hash in the
\* queue.  Stated for queues of well-formed transfers and for any order of
\* equal timestamps.
C26_LastPageCompleteAtAllTimes ==
  (isAtLastPage /\ Malformed(transactionQueue) = {}) =>
    \E o \in Outcomes : ResultHashes(o.res) = QueueHashes(transactionQueue)

\* C27: at most one loadMore() call is past the lock guard at any time: the
\* number of calls that passed the guard and have not ended is 0 or 1, it
\* is 1 exactly while a call is suspended, the lock is held for as long,
\* and page requests are outstanding only then.
C27_OneCallPastGuard ==
  /\ callsPastGuard \in {0, 1}
  /\ callsPastGuard = 1 <=> pc # "idle"
  /\ callsPastGuard = 1 => lock
  /\ pageRequests # EmptyMap => callsPastGuard = 1

\* a second call was turned away while the first awaits its pages
C27_Witness ==
  /\ pc = "fetch"
  /\ outcome = "skipped"
  /\ callsPastGuard = 1
  /\ lock

\* C28: the list never shrinks: in every state every sequence
\* getOrderedTransactions() can return has ExposedCount entries, and no step
\* of loadMore() or getOrderedTransactions() makes that number smaller.
C28_LengthNeverDecreases ==
  /\ [](\A res \in Results :
          Len(res) = ExposedCount(getOrderedTransactionsCache,
                                  transactionQueue, inorderTransactionHashes,
                                  isAtLastPage, pagesLoaded))
  /\ [][ExposedCount(getOrderedTransactionsCache, transactionQueue,
                     inorderTransactionHashes, isAtLastPage, pagesLoaded)
          <= ExposedCount(getOrderedTransactionsCache', transactionQueue',
                          inorderTransactionHashes',
                          isAtLastPageOf(nextIncomingPage', nextOutgoingPage'),
                          pagesLoaded')]_vars

\* two loads, and more entries than one load can expose
C28_Witness ==
  /\ pagesLoaded >= 2
  /\ pc = "idle"
  /\ getOrderedTransactionsCache # None
  /\ Len(getOrderedTransactionsCache[1]) > pageSizeParam

\* C29: a loadMore() call that starts when isAtLastPage() is true requests
\* no page and no details and leaves both cursors, the queue and the signed
\* details as they were; every sequence getOrderedTransactions() could
\* return before a step of the call it can return after it, and whatever it
\* returns after it has the same length and the same hashes.
C29_LoadAtLastPageChangesNothing ==
  [][(snapshot # None /\ isAtLastPageOf(snapshot[1][1], snapshot[1][2])) =>
       (/\ UNCHANGED <<nextIncomingPage, nextOutgoingPage, transactionQueue,
                       allSignedTransactions>>
        /\ pageFetches' = {}
        /\ pageRequests' = EmptyMap
        /\ detailsRequest' = None
        /\ pc' # pc =>
             LET after == ResultsOf(getOrderedTransactionsCache',
                                    transactionQueue', allTransactions',
                                    inorderTransactionHashes',
                                    allSignedTransactions',
                                    isAtLastPageOf(nextIncomingPage',
                                                   nextOutgoingPage'),
                                    pagesLoaded')
             IN \A b \in Results :
                  /\ b \in after
                  /\ \A a \in after :
                       /\ Len(a) = Len(b)
                       /\ ResultHashes(a) = ResultHashes(b))]_vars

\* a call that started at the last page, with transfers queued and a
\* result cached, is past its fetch step
C29_Witness ==
  /\ pc = "populate"
  /\ snapshot # None
  /\ isAtLastPageOf(snapshot[1][1], snapshot[1][2])
  /\ transactionQueue # EmptyBag
  /\ getOrderedTransactionsCache # None
  /\ getOrderedTransactionsCache[1] # <<>>

\* C30: the first page is fetched once: a feed of which a page fetch has
\* succeeded has a cursor that is not undefined, and a page request without
\* a page key (which the feed answers with its first page) is issued only
\* for a feed of which no page fetch has succeeded, whatever page keys the
\* feeds answer with.
C30_FirstPageFetchedOnce ==
  /\ "incoming" \in everFetched => nextIncomingPage # Undefined
  /\ "outgoing" \in everFetched => nextOutgoingPage # Undefined
  /\ \A f \in DOMAIN pageRequests :
       pageRequests[f].pageKey = Undefined => f \notin everFetched

\* C31: the grouping state is tied to the cache: in every state without a
\* cache the groups and the ordered hash list are empty, and the call of
\* getOrderedTransactions() that drains the queue leaves, for every hash, a
\* group with as many transfers as the queue holds for that hash, all of
\* them queued transfers, and an ordered hash list that holds exactly the
\* hashes of the queue, each once.
C31_GroupsFollowCache ==
  /\ [](getOrderedTransactionsCache = None =>
          (allTransactions = EmptyMap /\ inorderTransactionHashes = <<>>))
  /\ [][(getOrderedTransactionsCache = None
          /\ getOrderedTransactionsCache' # None) =>
            (/\ DOMAIN allTransactions' = QueueHashes(transactionQueue')
             /\ \A h \in DOMAIN allTransactions' :
                  /\ Len(allTransactions'[h]) = QueueCount(transactionQueue', h)
                  /\ \A x \in BagToSet(transactionQueue') :
                       x.hash = h =>
                         Cardinality({i \in 1..Len(allTransactions'[h]) :
                                        allTransactions'[h][i] = x})
                           = CopiesIn(x, transactionQueue')
             /\ SeqToSet(inorderTransactionHashes')
                  = QueueHashes(transactionQueue')
             /\ NoDuplicates(inorderTransactionHashes'))]_vars

\* a drain after an earlier drain and a further load: two hashes are
\* grouped, one of them with the two transfers the queue holds for it
C31_Witness ==
  /\ pagesLoaded >= 2
  /\ pc = "idle"
  /\ getOrderedTransactionsCache # None
  /\ Len(inorderTransactionHashes) >= 2
  /\ SeqToSet(inorderTransactionHashes) = QueueHashes(transactionQueue)
  /\ \E h \in DOMAIN allTransactions :
       /\ Len(allTransactions[h]) = 2
       /\ QueueCount(transactionQueue, h) = 2

====
